---- MODULE Spec2Model ----
(***************************************************************************)
(* Verification model of the stopword plug-in: the persistent stopword     *)
(* store (custom_stopwords.py), the file processor (text_processor.py),    *)
(* the document-type registry (document_processors.py) and the pipeline    *)
(* (nlp_pipeline.py).                                                       *)
(*                                                                         *)
(* A character is a one-character string, a word or a text a sequence of   *)
(* characters, so that str.lower(), sorted() and the tokenizer are         *)
(* computed character by character.                                        *)
(***************************************************************************)
EXTENDS Integers, Sequences, FiniteSets, TLC

\* ------------------------------------------------------------------ bounds
MaxStores == 2      \* CustomStopwords instances alive in the store specification
MaxArgs == 1        \* longest list passed to add()/remove()
MaxProcs == 2       \* processors constructed in the pipeline specification
MaxLog == 2         \* longest pipeline result log
MaxBatch == 2       \* longest list passed to process_batch()
MaxDocs == 3        \* longest result log in the text specification
MaxTop == 3         \* largest top_n passed to get_word_frequency()
MaxTextProcs == 1   \* stores alive in the text processor specification

\* -------------------------------------------------------------- characters
UpperChars == <<"A","B","C","D","E","F","G","H","I","J","K","L","M",
                "N","O","P","Q","R","S","T","U","V","W","X","Y","Z">>
LowerChars == <<"a","b","c","d","e","f","g","h","i","j","k","l","m",
                "n","o","p","q","r","s","t","u","v","w","x","y","z">>
DigitChars == <<"0","1","2","3","4","5","6","7","8","9">>

IndexIn(c, tab) == CHOOSE i \in DOMAIN tab : tab[i] = c
IsIn(c, tab) == \E i \in DOMAIN tab : tab[i] = c

\* the characters of the model: ASCII letters, digits and a few others
Chars == {UpperChars[i] : i \in DOMAIN UpperChars} \cup {LowerChars[i] : i \in DOMAIN LowerChars}
            \cup {DigitChars[i] : i \in DOMAIN DigitChars} \cup {"_", "-", ".", " "}

\* code point of an ASCII character (the order sorted() compares by)
OrdTable ==
    [c \in Chars |->
        IF IsIn(c, UpperChars) THEN 64 + IndexIn(c, UpperChars)
        ELSE IF IsIn(c, LowerChars) THEN 96 + IndexIn(c, LowerChars)
        ELSE IF IsIn(c, DigitChars) THEN 47 + IndexIn(c, DigitChars)
        ELSE IF c = "_" THEN 95
        ELSE IF c = "-" THEN 45
        ELSE IF c = "." THEN 46
        ELSE 32]
Ord(c) == OrdTable[c]

\* str.lower() on one character
LowerTable ==
    [c \in Chars |-> IF IsIn(c, UpperChars) THEN LowerChars[IndexIn(c, UpperChars)] ELSE c]
LowerChar(c) == LowerTable[c]

\* str.lower()
Lower(w) == [i \in DOMAIN w |-> LowerChar(w[i])]

\* str < str : lexicographic by code point
RECURSIVE StrLess(_, _)
StrLess(u, v) ==
    IF v = <<>> THEN FALSE
    ELSE IF u = <<>> THEN TRUE
    ELSE IF Head(u) = Head(v) THEN StrLess(Tail(u), Tail(v))
    ELSE Ord(Head(u)) < Ord(Head(v))

\* insertion of a string into a sorted list
RECURSIVE Insert(_, _)
Insert(x, s) ==
    IF s = <<>> THEN <<x>>
    ELSE IF StrLess(x, Head(s)) THEN <<x>> \o s
    ELSE <<Head(s)>> \o Insert(x, Tail(s))

\* sorted(set of str)
RECURSIVE Sorted(_)
Sorted(S) ==
    IF S = {} THEN <<>>
    ELSE LET x == CHOOSE y \in S : TRUE
         IN  Insert(x, Sorted(S \ {x}))

\* set(list)
SetOf(s) == {s[i] : i \in DOMAIN s}

\* ------------------------------------------------------------ input domains
Languages == {"english", "french"}
DefaultLanguage == "english"
DefaultPath == "custom_stopwords.json"
Paths == {DefaultPath}

\* words a caller passes to add(), remove() and is_stopword()
Words == { <<"A">>, <<"X","y">> }

\* lists of at most n words
RECURSIVE WordLists(_)
WordLists(n) ==
    IF n = 0 THEN { <<>> }
    ELSE LET shorter == WordLists(n - 1)
         IN  shorter \cup { Append(l, w) : l \in shorter, w \in Words }

\* the argument of add()/remove(): one str, or a list of str
StrArg(w) == [isStr |-> TRUE, str |-> w, list |-> <<>>]
ListArg(l) == [isStr |-> FALSE, str |-> <<>>, list |-> l]
Args == { StrArg(w) : w \in Words } \cup { ListArg(l) : l \in WordLists(MaxArgs) }

\* --------------------------------------------------------- stopword store
\* nltk.corpus.stopwords.words(language): a fixed lowercase list per language
BaseStopwords(language) ==
    IF language = "english"
    THEN { <<"a">>, <<"t","h","e">>, <<"t","o">> }
    ELSE { <<"l","a">>, <<"l","e">> }

\* dict.get(key, [])
DictGet(d, k) == IF k \in DOMAIN d THEN d[k] ELSE <<>>

\* d[key] = value
DictPut(d, k, v) == [x \in (DOMAIN d) \cup {k} |-> IF x = k THEN v ELSE d[x]]

EmptyDict == [x \in {} |-> <<>>]

\* the persisted file: absent, or a JSON text; ok is FALSE when the text does
\* not parse (empty after a truncating open, or overwritten in part); size is
\* the length of the text
NoFile == [exists |-> FALSE, ok |-> FALSE, size |-> 0, data |-> EmptyDict]

RECURSIVE SumLen(_)
SumLen(ws) == IF ws = <<>> THEN 0 ELSE Len(Head(ws)) + SumLen(Tail(ws))

\* length of json.dumps(list, indent=4) nested one level deep
JsonListSize(ws) ==
    IF ws = <<>> THEN 2
    ELSE 2 + SumLen(ws) + 10 * Len(ws) + 2 * (Len(ws) - 1) + 6

RECURSIVE JsonEntriesSize(_, _)
JsonEntriesSize(d, keys) ==
    IF keys = {} THEN 0
    ELSE LET k == CHOOSE x \in keys : TRUE
         IN  4 + (Len(k) + 2) + 2 + JsonListSize(d[k]) + JsonEntriesSize(d, keys \ {k})

\* length of json.dumps(data, indent=4)
JsonSize(d) ==
    IF DOMAIN d = {} THEN 2
    ELSE 2 + JsonEntriesSize(d, DOMAIN d) + 2 * (Cardinality(DOMAIN d) - 1) + 2

\* the file json.dump(data, f, indent=4) leaves behind when it is the only writer
FileOf(d) == [exists |-> TRUE, ok |-> TRUE, size |-> JsonSize(d), data |-> d]

\* CustomStopwords._initialize_storage
initialize_storage == FileOf(EmptyDict)

\* CustomStopwords._load_custom_stopwords: the custom set read back from a file
load_custom_stopwords(f, language) == SetOf(DictGet(f.data, language))

\* the isinstance(words, str) wrap of add() and remove()
AsList(arg) == IF arg.isStr THEN <<arg.str>> ELSE arg.list

\* add() that keeps the caller's spelling
add_update_keepcase(custom, arg) == custom \cup SetOf(AsList(arg))

\* CustomStopwords.add, in memory: custom_stopwords.update(word.lower() ...)
add_update(custom, arg) == custom \cup { Lower(w) : w \in SetOf(AsList(arg)) }

\* remove() that discards the caller's spelling
remove_discard_keepcase(custom, arg) == custom \ SetOf(AsList(arg))

\* CustomStopwords.remove, in memory: custom_stopwords.discard(word.lower())
remove_discard(custom, arg) == custom \ { Lower(w) : w \in SetOf(AsList(arg)) }

\* _save() that writes nothing for an empty set
save_data_skip_empty(d, language, custom) ==
    IF custom = {} THEN d ELSE DictPut(d, language, Sorted(custom))

\* _save() that writes this language's entry alone
save_data_overwrite(d, language, custom) == [x \in {language} |-> Sorted(custom)]

\* _save() that merges the entry already on file into the one written
save_data_merge(d, language, custom) ==
    DictPut(d, language, Sorted(custom \cup SetOf(DictGet(d, language))))

\* CustomStopwords._save, lines 81-84: the mapping read, with this language's entry replaced
save_data(d, language, custom) == DictPut(d, language, Sorted(custom))

\* CustomStopwords._save as a whole, run alone
save(f, language, custom) == FileOf(save_data(f.data, language, custom))

\* CustomStopwords.get_all
get_all(store) == BaseStopwords(store.language) \cup store.custom_stopwords

\* CustomStopwords.is_stopword
is_stopword(store, word) == Lower(word) \in get_all(store)

\* CustomStopwords.__init__ : the file after construction, and the new instance
init_file(f) == IF ~f.exists THEN initialize_storage ELSE f
NewInstance(f, language, path) ==
    [language |-> language, storage_path |-> path,
     custom_stopwords |-> load_custom_stopwords(init_file(f), language)]

\* ------------------------------------------------------------------- state
VARIABLES
    files,        \* storage path -> persisted file
    stores,       \* the CustomStopwords instances constructed so far, by identity
    last,         \* the call that returned last: operation, arguments, outcome
    pc,           \* race specification: position of each process inside add()/remove()
    snap,         \* race specification: the local variable data of _save, per process
    lastWriter,   \* race specification: the process whose json.dump ran last (0: none)
    registry,     \* ProcessorRegistry._processors: label -> factory
    processors,   \* NLPPipeline.processors: label -> processor identity
    results       \* NLPPipeline.results

vars == <<files, stores, last, pc, snap, lastWriter, registry, processors, results>>

storeVars == <<files, stores>>
raceVars == <<pc, snap, lastWriter>>
pipeVars == <<registry, processors, results>>

NoCall == [call |-> "none"]

\* ------------------------------------------- store operations, run alone
\* CustomStopwords(language, storage_path)
New(language, path) ==
    /\ Len(stores) < MaxStores
    /\ files' = [files EXCEPT ![path] = init_file(@)]
    /\ stores' = Append(stores, NewInstance(files[path], language, path))
    /\ last' = [call |-> "new", id |-> Len(stores) + 1]
    /\ UNCHANGED <<raceVars, pipeVars>>

\* store.add(words)
Add(i, arg) ==
    LET s == stores[i]
        custom == add_update(s.custom_stopwords, arg)
    IN  /\ stores' = [stores EXCEPT ![i].custom_stopwords = custom]
        /\ files' = [files EXCEPT ![s.storage_path] = save(@, s.language, custom)]
        /\ last' = [call |-> "add", id |-> i, arg |-> arg, custom_before |-> s.custom_stopwords]
        /\ UNCHANGED <<raceVars, pipeVars>>

\* store.remove(words)
Remove(i, arg) ==
    LET s == stores[i]
        custom == remove_discard(s.custom_stopwords, arg)
    IN  /\ stores' = [stores EXCEPT ![i].custom_stopwords = custom]
        /\ files' = [files EXCEPT ![s.storage_path] = save(@, s.language, custom)]
        /\ last' = [call |-> "remove", id |-> i, arg |-> arg, custom_before |-> s.custom_stopwords]
        /\ UNCHANGED <<raceVars, pipeVars>>

NoRace == /\ pc = <<>>
          /\ snap = <<>>
          /\ lastWriter = 0

NoPipeline == /\ registry = EmptyDict
              /\ processors = EmptyDict
              /\ results = <<>>

Init ==
    /\ files = [p \in Paths |-> NoFile]
    /\ stores = <<>>
    /\ last = NoCall
    /\ NoRace
    /\ NoPipeline

Next ==
    \/ \E language \in Languages, path \in Paths : New(language, path)
    \/ \E i \in DOMAIN stores, arg \in Args : Add(i, arg)
    \/ \E i \in DOMAIN stores, arg \in Args : Remove(i, arg)

Spec == Init /\ [][Next]_vars

\* ------------------------------------------------------------ claims C1-C4
\* the spellings of a character in either letter case
CharVariants(c) ==
    {c} \cup { UpperChars[i] : i \in {j \in DOMAIN LowerChars : LowerChars[j] = c} }
        \cup { LowerChars[i] : i \in {j \in DOMAIN UpperChars : UpperChars[j] = c} }

\* the spellings of a word in every mix of letter cases
CaseVariants(w) ==
    { v \in [DOMAIN w -> UNION { CharVariants(w[i]) : i \in DOMAIN w }] :
        \A i \in DOMAIN w : v[i] \in CharVariants(w[i]) }

\* C1: right after store.add(words) returns, is_stopword is true of every
\* word passed, spelled in any mix of letter cases.
C1_AddThenStopword ==
    last.call = "add" =>
        \A w \in SetOf(AsList(last.arg)) : \A v \in CaseVariants(w) :
            is_stopword(stores[last.id], v)

\* an add of a mixed-case word that is not a base stopword has returned
C1_Witness ==
    /\ last.call = "add"
    /\ <<"X","y">> \in SetOf(AsList(last.arg))
    /\ <<"x","y">> \notin last.custom_before
    /\ is_stopword(stores[last.id], <<"x","Y">>)

\* C2: right after store.remove(words) returns, is_stopword(w) is true of a
\* word passed exactly when its lowercase form is a base stopword.
C2_RemoveThenBaseOnly ==
    last.call = "remove" =>
        \A w \in SetOf(AsList(last.arg)) :
            is_stopword(stores[last.id], w)
                <=> Lower(w) \in BaseStopwords(stores[last.id].language)

\* a remove of a mixed-case word that was a custom stopword has returned, and
\* so has a remove of a word that was absent
C2_Witness ==
    /\ last.call = "remove"
    /\ \/ /\ <<"X","y">> \in SetOf(AsList(last.arg))
          /\ <<"x","y">> \in last.custom_before
          /\ ~is_stopword(stores[last.id], <<"X","y">>)
       \/ /\ <<"A">> \in SetOf(AsList(last.arg))
          /\ <<"a">> \in last.custom_before
          /\ is_stopword(stores[last.id], <<"A">>)

\* C3: right after an add or a remove of a store returns, a new instance
\* constructed on the same storage path and language loads the same custom set.
C3_RoundTrip ==
    last.call \in {"add", "remove"} =>
        LET s == stores[last.id]
        IN  NewInstance(files[s.storage_path], s.language, s.storage_path).custom_stopwords
                = s.custom_stopwords

\* a second instance was constructed after the first one's adds and loaded
\* the two words the first one holds
C3_Witness ==
    /\ last.call = "new"
    /\ last.id > 1
    /\ Cardinality(stores[last.id].custom_stopwords) >= 2
    /\ \E i \in 1..(last.id - 1) :
          /\ stores[i].language = stores[last.id].language
          /\ stores[i].storage_path = stores[last.id].storage_path
          /\ stores[i].custom_stopwords = stores[last.id].custom_stopwords

\* C4: an add or a remove of a store for language L on path p leaves every
\* other entry of every persisted file as it was.
C4_step ==
    last'.call \in {"add", "remove"} =>
        LET s == stores[last'.id]
        IN  \A p \in Paths : \A l \in DOMAIN files[p].data :
                (p # s.storage_path \/ l # s.language) =>
                    /\ l \in DOMAIN files'[p].data
                    /\ files'[p].data[l] = files[p].data[l]
C4_OtherLanguagesKept == [][C4_step]_vars

\* two stores for different languages on one path have both written, the
\* last one over an entry of its own that was already there
C4_Witness ==
    /\ last.call \in {"add", "remove"}
    /\ last.custom_before # {}
    /\ \E p \in Paths :
          /\ stores[last.id].storage_path = p
          /\ \A l \in Languages : l \in DOMAIN files[p].data /\ files[p].data[l] # <<>>

\* ------------------------------------------------------------------------
\* Two processes, each holding one instance on the default path and language,
\* whose add()/remove() calls overlap.  A call is the in-memory update, then
\* the three file accesses of _save: the read (lines 81-82), the truncating
\* open (line 86) and the write of the buffered text at close (line 87).
RaceProcs == {1, 2}

\* an existing file whose text does not parse
Unparsable(size) == [exists |-> TRUE, ok |-> FALSE, size |-> size, data |-> EmptyDict]

\* open(storage_path, "w")
Truncated == Unparsable(0)

\* the file after a process that opened it at offset 0 writes the text of d:
\* a longer text already there keeps its tail
WrittenOver(f, d) == IF f.size <= JsonSize(d) THEN FileOf(d) ELSE Unparsable(f.size)

InitRace ==
    /\ files = [p \in Paths |-> initialize_storage]
    /\ stores = [p \in RaceProcs |->
                    NewInstance(initialize_storage, DefaultLanguage, DefaultPath)]
    /\ last = [p \in RaceProcs |-> [call |-> "none", status |-> "none"]]
    /\ pc = [p \in RaceProcs |-> "idle"]
    /\ snap = [p \in RaceProcs |-> EmptyDict]
    /\ lastWriter = 0
    /\ NoPipeline

\* add(words), up to the call of _save
RaceAdd(p, arg) ==
    /\ pc[p] = "idle"
    /\ stores' = [stores EXCEPT ![p].custom_stopwords = add_update(@, arg)]
    /\ pc' = [pc EXCEPT ![p] = "read"]
    /\ last' = [last EXCEPT ![p] = [call |-> "add", status |-> "running"]]
    /\ UNCHANGED <<files, snap, lastWriter, pipeVars>>

\* remove(words), up to the call of _save
RaceRemove(p, arg) ==
    /\ pc[p] = "idle"
    /\ stores' = [stores EXCEPT ![p].custom_stopwords = remove_discard(@, arg)]
    /\ pc' = [pc EXCEPT ![p] = "read"]
    /\ last' = [last EXCEPT ![p] = [call |-> "remove", status |-> "running"]]
    /\ UNCHANGED <<files, snap, lastWriter, pipeVars>>

\* _save, lines 81-84: json.load raises on a text that does not parse
SaveRead(p) ==
    /\ pc[p] = "read"
    /\ LET s == stores[p]
           f == files[s.storage_path]
       IN  IF f.ok
           THEN /\ snap' = [snap EXCEPT ![p] = save_data(f.data, s.language, s.custom_stopwords)]
                /\ pc' = [pc EXCEPT ![p] = "open"]
                /\ last' = last
           ELSE /\ snap' = snap
                /\ pc' = [pc EXCEPT ![p] = "idle"]
                /\ last' = [last EXCEPT ![p].status = "raised"]
    /\ UNCHANGED <<files, stores, lastWriter, pipeVars>>

\* _save, line 86
SaveOpen(p) ==
    /\ pc[p] = "open"
    /\ files' = [files EXCEPT ![stores[p].storage_path] = Truncated]
    /\ pc' = [pc EXCEPT ![p] = "dump"]
    /\ UNCHANGED <<stores, last, snap, lastWriter, pipeVars>>

\* _save, line 87
SaveDump(p) ==
    /\ pc[p] = "dump"
    /\ files' = [files EXCEPT ![stores[p].storage_path] = WrittenOver(@, snap[p])]
    /\ pc' = [pc EXCEPT ![p] = "idle"]
    /\ last' = [last EXCEPT ![p].status = "returned"]
    /\ lastWriter' = p
    /\ UNCHANGED <<stores, snap, pipeVars>>

NextRace ==
    \/ \E p \in RaceProcs, arg \in Args : RaceAdd(p, arg)
    \/ \E p \in RaceProcs, arg \in Args : RaceRemove(p, arg)
    \/ \E p \in RaceProcs : SaveRead(p)
    \/ \E p \in RaceProcs : SaveOpen(p)
    \/ \E p \in RaceProcs : SaveDump(p)

SpecRace == InitRace /\ [][NextRace]_vars

\* ----------------------------------------------------------------- claim C5
BothReturned == \A p \in RaceProcs : pc[p] = "idle"
PersistedEntry == DictGet(files[DefaultPath].data, DefaultLanguage)

\* C5 as claimed: once both processes are out of their calls, in any
\* interleaving, the persisted entry is the in-memory set of the process that
\* wrote last and no call has raised.
C5_LastWriterWinsNoError ==
    (BothReturned /\ lastWriter # 0) =>
        /\ files[DefaultPath].ok
        /\ PersistedEntry = Sorted(stores[lastWriter].custom_stopwords)
        /\ \A p \in RaceProcs : last[p].status # "raised"

\* C5 as amended: once both processes are out of their calls and the file
\* parses, the persisted entry is the in-memory set of the process that wrote
\* last.
C5_LastWriterWinsWhenParsable ==
    (BothReturned /\ lastWriter # 0 /\ files[DefaultPath].ok) =>
        PersistedEntry = Sorted(stores[lastWriter].custom_stopwords)

\* both adds returned without raising and the word of the process that did
\* not write last is missing from the file
C5_Witness ==
    /\ BothReturned
    /\ lastWriter # 0
    /\ files[DefaultPath].ok
    /\ \A p \in RaceProcs : last[p] = [call |-> "add", status |-> "returned"]
    /\ \E p \in RaceProcs \ {lastWriter} :
          \E w \in stores[p].custom_stopwords : w \notin SetOf(PersistedEntry)

\* a call raised inside _save, and two overlapping writes left a file that
\* does not parse
C5_RaisedReached == \E p \in RaceProcs : last[p].status = "raised"
C5_UnparsableReached == BothReturned /\ ~files[DefaultPath].ok

\* ------------------------------------------------------ tokenizer / filter
WordChars == {UpperChars[i] : i \in DOMAIN UpperChars} \cup {LowerChars[i] : i \in DOMAIN LowerChars}
                \cup {DigitChars[i] : i \in DOMAIN DigitChars} \cup {"_"}
IsWordChar(c) == c \in WordChars
IsSpace(c) == c = " "

\* re.findall(r'\b\w+\b', s): the maximal runs of word characters, left to right
RECURSIVE FindWords(_, _, _)
FindWords(s, cur, acc) ==
    IF s = <<>> THEN (IF cur = <<>> THEN acc ELSE Append(acc, cur))
    ELSE IF IsWordChar(Head(s)) THEN FindWords(Tail(s), Append(cur, Head(s)), acc)
    ELSE FindWords(Tail(s), <<>>, IF cur = <<>> THEN acc ELSE Append(acc, cur))

\* str.split(): the maximal runs of non-whitespace characters
RECURSIVE SplitWords(_, _, _)
SplitWords(s, cur, acc) ==
    IF s = <<>> THEN (IF cur = <<>> THEN acc ELSE Append(acc, cur))
    ELSE IF ~IsSpace(Head(s)) THEN SplitWords(Tail(s), Append(cur, Head(s)), acc)
    ELSE SplitWords(Tail(s), <<>>, IF cur = <<>> THEN acc ELSE Append(acc, cur))

\* [x for x in seq if keep(x)] for the stopword test
RECURSIVE DropStopwords(_, _)
DropStopwords(ws, store) ==
    IF ws = <<>> THEN <<>>
    ELSE IF is_stopword(store, Head(ws)) THEN DropStopwords(Tail(ws), store)
    ELSE <<Head(ws)>> \o DropStopwords(Tail(ws), store)

\* preprocess without text.lower()
preprocess_keepcase(text, store, remove_stopwords) ==
    LET words == FindWords(text, <<>>, <<>>)
    IN  IF remove_stopwords THEN DropStopwords(words, store) ELSE words

\* preprocess(text, stopwords_plugin, remove_stopwords)
preprocess(text, store, remove_stopwords) ==
    LET words == FindWords(Lower(text), <<>>, <<>>)
    IN  IF remove_stopwords THEN DropStopwords(words, store) ELSE words

\* round(a / b, 0) for b > 0, no tie arising below 32 words
RoundDiv(a, b) == (2 * a + b) \div (2 * b)

\* the share of the words kept, in place of the share removed
reduction_percent_kept(ntokens, nwords) ==
    IF nwords = 0 THEN 0 ELSE RoundDiv(10000 * ntokens, nwords)

\* round((1 - tokens / words) * 100, 2) if words else 0, in hundredths of a percent
reduction_percent(ntokens, nwords) ==
    IF nwords = 0 THEN 0 ELSE RoundDiv(10000 * (nwords - ntokens), nwords)

\* --------------------------------------------------- document-type registry
web_terms ==
    << <<"h","t","m","l">>,
       <<"c","s","s">>,
       <<"j","a","v","a","s","c","r","i","p","t">>,
       <<"b","r","o","w","s","e","r">>,
       <<"p","a","g","e">>,
       <<"l","i","n","k">>,
       <<"b","u","t","t","o","n">>,
       <<"f","o","r","m">> >>
business_terms ==
    << <<"c","o","m","p","a","n","y">>,
       <<"b","u","s","i","n","e","s","s">>,
       <<"m","a","r","k","e","t">>,
       <<"c","u","s","t","o","m","e","r">>,
       <<"p","r","o","d","u","c","t">>,
       <<"r","e","v","e","n","u","e">>,
       <<"p","r","o","f","i","t">> >>
academic_terms ==
    << <<"a","b","s","t","r","a","c","t">>,
       <<"i","n","t","r","o","d","u","c","t","i","o","n">>,
       <<"c","o","n","c","l","u","s","i","o","n">>,
       <<"m","e","t","h","o","d">>,
       <<"r","e","s","u","l","t">>,
       <<"s","t","u","d","y">>,
       <<"r","e","s","e","a","r","c","h">>,
       <<"p","a","p","e","r">>,
       <<"a","u","t","h","o","r">> >>
news_terms ==
    << <<"s","a","i","d">>,
       <<"s","a","y","s">>,
       <<"r","e","p","o","r","t","e","d">>,
       <<"a","c","c","o","r","d","i","n","g">>,
       <<"n","e","w","s">>,
       <<"a","r","t","i","c","l","e">>,
       <<"s","t","o","r","y">>,
       <<"s","o","u","r","c","e">>,
       <<"t","o","d","a","y">> >>

\* the words a factory of DocumentTypeProcessors adds to its store
ExtraTerms(factory) ==
    CASE factory = "create_web_content_processor" -> web_terms
      [] factory = "create_business_processor" -> business_terms
      [] factory = "create_academic_processor" -> academic_terms
      [] factory = "create_news_processor" -> news_terms
      [] OTHER -> <<>>

\* ProcessorRegistry._processors as the class is defined
PresetRegistry ==
    [label \in {"technical", "web", "business", "academic", "news"} |->
        CASE label = "technical" -> "create_technical_processor"
          [] label = "web" -> "create_web_content_processor"
          [] label = "business" -> "create_business_processor"
          [] label = "academic" -> "create_academic_processor"
          [] label = "news" -> "create_news_processor"]

\* NLPPipeline.__init__(default_type="technical")
default_type == "technical"

\* ------------------------------------------------------------- file system
\* what open(path) meets: a readable text file, no file, a file that cannot
\* be read, or a directory
FileKind(path) ==
    CASE path \in {"docs/a.txt", "freq.txt", "ties.txt"} -> "file"
      [] path = "docs/locked.txt" -> "unreadable"
      [] path = "docs/sub.txt" -> "dir"
      [] OTHER -> "missing"

FileText(path) ==
    CASE path = "freq.txt" -> <<"a"," ","a"," ","b"," ","b"," ","b"," ","c">>
      [] path = "ties.txt" -> <<"C"," ","b"," ","b"," ","c"," ","a">>
      [] OTHER -> <<"T","h","e"," ","W","e","b"," ","p","a","g","e">>

\* glob(directory/*.txt)
Glob(directory) ==
    IF directory = "docs" THEN <<"docs/a.txt", "docs/locked.txt", "docs/sub.txt">> ELSE <<>>

\* str(e) of the OSError open() raises
OpenError(path) ==
    IF FileKind(path) = "unreadable" THEN "[Errno 13] Permission denied: '" \o path \o "'"
    ELSE IF FileKind(path) = "dir" THEN "[Errno 21] Is a directory: '" \o path \o "'"
    ELSE "[Errno 2] No such file or directory: '" \o path \o "'"

\* ---------------------------------------------------------------- pipeline
\* The operations below take the program state as a record P with the fields
\* files, stores, registry, processors and results, and yield the state after
\* the call with its outcome: raised (an exception left the call), error (the
\* exception) or value (what the call returned).  The call record last has
\* the fields call, inputs, log_before and raised, with error when the call
\* raised and value when it returned.
Returned(P, value) == [P |-> P, raised |-> FALSE, error |-> "", value |-> value]
Raised(P, error) == [P |-> P, raised |-> TRUE, error |-> error, value |-> 0]

\* a factory whose add() is not persisted
CreateProcessor_unsaved(f, factory) ==
    LET inst == NewInstance(f, DefaultLanguage, DefaultPath)
        custom == add_update(inst.custom_stopwords, ListArg(ExtraTerms(factory)))
    IN  [file |-> init_file(f),
         store |-> [language |-> inst.language, storage_path |-> inst.storage_path,
                    custom_stopwords |-> custom, made_by |-> factory]]

\* a factory of DocumentTypeProcessors: the persisted file afterwards and the
\* store of the processor it returns (made_by records the factory)
CreateProcessor(f, factory) ==
    LET inst == NewInstance(f, DefaultLanguage, DefaultPath)
        custom == add_update(inst.custom_stopwords, ListArg(ExtraTerms(factory)))
        store == [language |-> inst.language, storage_path |-> inst.storage_path,
                  custom_stopwords |-> inst.custom_stopwords, made_by |-> factory]
    IN  IF factory = "create_technical_processor"
        THEN [file |-> init_file(f), store |-> store]
        ELSE [file |-> save(init_file(f), inst.language, custom),
              store |-> [store EXCEPT !.custom_stopwords = custom]]

\* the program after a factory call with outcome c: the new processor is the
\* next object constructed
with_processor(P, c) ==
    Returned([P EXCEPT !.files[DefaultPath] = c.file, !.stores = Append(@, c.store)],
             Len(P.stores) + 1)

\* ProcessorRegistry.get_processor(doc_type)
registry_get_processor(P, doc_type) ==
    IF doc_type \notin DOMAIN P.registry
    THEN Raised(P, [kind |-> "ValueError", doc_type |-> doc_type,
                    available |-> DOMAIN P.registry])
    ELSE with_processor(P, CreateProcessor(P.files[DefaultPath], P.registry[doc_type]))

\* register_processor() that keeps the factory of a label already registered
register_processor_keep(P, doc_type, factory) ==
    IF doc_type \in DOMAIN P.registry THEN Returned(P, 0)
    ELSE Returned([P EXCEPT !.registry = DictPut(@, doc_type, factory)], 0)

\* ProcessorRegistry.register_processor(doc_type, processor_factory)
register_processor(P, doc_type, factory) ==
    Returned([P EXCEPT !.registry = DictPut(@, doc_type, factory)], 0)

\* self.processors[doc_type] = ..., with r the outcome of the registry call
cache_processor(r, doc_type) ==
    IF r.raised THEN r
    ELSE Returned([r.P EXCEPT !.processors = DictPut(@, doc_type, r.value)], r.value)

\* NLPPipeline.get_processor that asks the registry on every call
get_processor_uncached(P, doc_type) ==
    cache_processor(registry_get_processor(P, doc_type), doc_type)

\* NLPPipeline.get_processor(doc_type)
get_processor(P, doc_type) ==
    IF doc_type \notin DOMAIN P.processors
    THEN cache_processor(registry_get_processor(P, doc_type), doc_type)
    ELSE Returned(P, P.processors[doc_type])

\* doc_type or self.default_type ("" stands for None)
OrDefault(doc_type) == IF doc_type = "" THEN default_type ELSE doc_type

\* the record NLPPipeline.process_text builds from the tokens (get_frequency
\* left False)
text_record(text, doc_type, tokens) ==
    [type |-> doc_type,
     original_length |-> Len(text),
     token_count |-> Len(tokens),
     unique_tokens |-> Cardinality(SetOf(tokens)),
     tokens |-> tokens,
     reduction_percent |->
         reduction_percent(Len(tokens), Len(SplitWords(text, <<>>, <<>>)))]

TextResult(text, doc_type, store) ==
    text_record(text, doc_type, preprocess(text, store, TRUE))

\* self.results.append(result); return result
append_result(P, result) == Returned([P EXCEPT !.results = Append(@, result)], result)

\* NLPPipeline.process_text after its get_processor call, of outcome g
process_text_with(g, text, doc_type) ==
    IF g.raised THEN g
    ELSE append_result(g.P, TextResult(text, doc_type, g.P.stores[g.value]))

\* NLPPipeline.process_text(text, doc_type)
process_text(P, text, doc_type) ==
    process_text_with(get_processor(P, OrDefault(doc_type)), text, OrDefault(doc_type))

\* result["file"] = file_path
WithFile(result, path) ==
    [k \in (DOMAIN result) \cup {"file"} |-> IF k = "file" THEN path ELSE result[k]]

\* the record in the log is the object returned: setting its "file" key shows
\* in the log
set_last_result(P, result) ==
    Returned([P EXCEPT !.results[Len(P.results)] = result], result)

\* the try block of process_file after open() succeeded, with r the outcome of
\* its process_text call
file_result(r, path) ==
    IF r.raised THEN Returned(r.P, [file |-> path, error |-> r.error.kind])
    ELSE set_last_result(r.P, WithFile(r.value, path))

\* NLPPipeline.process_file after its get_processor call, of outcome g
process_file_with(g, path, doc_type) ==
    IF g.raised THEN g
    ELSE IF FileKind(path) = "missing"
    THEN Returned(g.P, [file |-> path, error |-> "File not found"])
    ELSE IF FileKind(path) # "file"
    THEN Returned(g.P, [file |-> path, error |-> OpenError(path)])
    ELSE file_result(process_text(g.P, FileText(path), doc_type), path)

\* process_file looking for the file before it resolves the processor
process_file_file_first(P, path, doc_type) ==
    IF FileKind(path) = "missing"
    THEN Returned(P, [file |-> path, error |-> "File not found"])
    ELSE process_file_with(get_processor(P, OrDefault(doc_type)), path, OrDefault(doc_type))

\* NLPPipeline.process_file(file_path, doc_type)
process_file(P, path, doc_type) ==
    process_file_with(get_processor(P, OrDefault(doc_type)), path, OrDefault(doc_type))

\* NLPPipeline.process_batch(texts): items are <<text, doc_type>>; r is the
\* outcome of process_text on the item before rest
RECURSIVE process_batch_loop(_, _, _)
process_batch_next(r, rest, acc) ==
    IF r.raised THEN r ELSE process_batch_loop(r.P, rest, Append(acc, r.value))

\* process_batch that collects its results at the front of the list
RECURSIVE process_batch_loop_prepend(_, _, _)
process_batch_loop_prepend(P, texts, acc) ==
    IF texts = <<>> THEN Returned(P, acc)
    ELSE LET r == process_text(P, Head(texts)[1], Head(texts)[2])
         IN  IF r.raised THEN r
             ELSE process_batch_loop_prepend(r.P, Tail(texts), <<r.value>> \o acc)

process_batch_loop(P, texts, acc) ==
    IF texts = <<>> THEN Returned(P, acc)
    ELSE process_batch_next(process_text(P, Head(texts)[1], Head(texts)[2]),
                            Tail(texts), acc)
process_batch(P, texts) == process_batch_loop(P, texts, <<>>)

\* Path.is_file()
IsFile(path) == FileKind(path) \in {"file", "unreadable"}

\* NLPPipeline.process_directory(directory, doc_type=...); r is the outcome of
\* process_file on the path before rest
RECURSIVE process_directory_loop(_, _, _, _)
process_directory_next(r, rest, doc_type, acc) ==
    IF r.raised THEN r
    ELSE process_directory_loop(r.P, rest, doc_type, Append(acc, r.value))
process_directory_loop(P, paths, doc_type, acc) ==
    IF paths = <<>> THEN Returned(P, acc)
    ELSE IF ~IsFile(Head(paths))
    THEN process_directory_loop(P, Tail(paths), doc_type, acc)
    ELSE process_directory_next(process_file(P, Head(paths), doc_type),
                                Tail(paths), doc_type, acc)
process_directory(P, directory, doc_type) ==
    process_directory_loop(P, Glob(directory), OrDefault(doc_type), <<>>)

\* reset() that also drops the cached processors
reset_processors(P) == Returned([P EXCEPT !.results = <<>>, !.processors = EmptyDict], 0)

\* NLPPipeline.reset()
reset(P) == Returned([P EXCEPT !.results = <<>>], 0)

\* sum(r.get(key, 0) for r in self.results)
RECURSIVE SumField(_, _)
SumField(rs, key) ==
    IF rs = <<>> THEN 0
    ELSE (IF key \in DOMAIN Head(rs) THEN Head(rs)[key] ELSE 0) + SumField(Tail(rs), key)

\* {"message": "No results yet"}
NoResults == [message |-> "No results yet"]

\* round(total / n, 2) in hundredths; no tie arises below 8 documents
avg_tokens_per_doc(total, n) == RoundDiv(100 * total, n)

\* get_pipeline_stats() that counts the documents of the last type only
total_documents_last_type(rs) ==
    Cardinality({k \in DOMAIN rs : rs[k].type = rs[Len(rs)].type})

\* len(self.results)
total_documents(rs) == Len(rs)

\* NLPPipeline.get_pipeline_stats(): document_types is a list made from a
\* set, in no stated order, kept here as the set
get_pipeline_stats(P) ==
    IF P.results = <<>> THEN Returned(P, NoResults)
    ELSE Returned(P, [total_documents |-> total_documents(P.results),
                      total_tokens |-> SumField(P.results, "token_count"),
                      total_unique_tokens |-> SumField(P.results, "unique_tokens"),
                      avg_tokens_per_doc |->
                          avg_tokens_per_doc(SumField(P.results, "token_count"),
                                             Len(P.results)),
                      document_types |->
                          {P.results[k].type :
                               k \in {j \in DOMAIN P.results : "type" \in DOMAIN P.results[j]}}])

\* the record TextProcessor.process_file returns
tp_file_record(path, text, tokens, remove_stopwords) ==
    [file |-> path,
     original_text |-> text,
     tokens |-> tokens,
     token_count |-> Len(tokens),
     unique_tokens |-> Cardinality(SetOf(tokens)),
     remove_stopwords |-> remove_stopwords]

\* TextProcessor.process_file(file_path, remove_stopwords)
tp_process_file(P, store, path, remove_stopwords) ==
    IF FileKind(path) = "missing"
    THEN Raised(P, [kind |-> "FileNotFoundError", message |-> "File not found: " \o path])
    ELSE IF FileKind(path) # "file"
    THEN Raised(P, [kind |-> "OSError", message |-> OpenError(path)])
    ELSE Returned(P, tp_file_record(path, FileText(path),
                                    preprocess(FileText(path), store, remove_stopwords),
                                    remove_stopwords))

\* the except branch of TextProcessor.process_directory, with r the outcome of
\* process_file on path
tp_entry(r, path) ==
    IF r.raised THEN [file |-> path, error |-> r.error.message] ELSE r.value

\* TextProcessor.process_directory(directory, remove_stopwords=...)
RECURSIVE tp_process_directory_loop(_, _, _, _, _)
tp_process_directory_loop(P, store, paths, remove_stopwords, acc) ==
    IF paths = <<>> THEN Returned(P, acc)
    ELSE tp_process_directory_loop(
             P, store, Tail(paths), remove_stopwords,
             Append(acc, tp_entry(tp_process_file(P, store, Head(paths), remove_stopwords),
                                  Head(paths))))
tp_process_directory(P, store, directory, remove_stopwords) ==
    tp_process_directory_loop(P, store, Glob(directory), remove_stopwords, <<>>)

\* Counter.__init__ counting one more occurrence of w: a dict keeps its keys
\* in the order they were first inserted
CounterAdd(counts, w) ==
    IF \E k \in DOMAIN counts : counts[k][1] = w
    THEN [k \in DOMAIN counts |->
             IF counts[k][1] = w THEN <<w, counts[k][2] + 1>> ELSE counts[k]]
    ELSE Append(counts, <<w, 1>>)

\* Counter(tokens), as its items() in insertion order
RECURSIVE Counter(_, _)
Counter(tokens, counts) ==
    IF tokens = <<>> THEN counts
    ELSE Counter(Tail(tokens), CounterAdd(counts, Head(tokens)))

\* an item put into a list ordered by count in front of the items of the
\* same count
InsertByCount_front(sorted, item) ==
    LET before == Cardinality({k \in DOMAIN sorted : sorted[k][2] > item[2]})
    IN  SubSeq(sorted, 1, before) \o <<item>> \o SubSeq(sorted, before + 1, Len(sorted))

\* one item put into a list ordered by count, largest first, behind the items
\* of the same count: the order heapq.nlargest and sorted(reverse=True) give
\* to items met in sequence
InsertByCount(sorted, item) ==
    LET before == Cardinality({k \in DOMAIN sorted : sorted[k][2] >= item[2]})
    IN  SubSeq(sorted, 1, before) \o <<item>> \o SubSeq(sorted, before + 1, Len(sorted))

RECURSIVE SortByCount(_, _)
SortByCount(items, sorted) ==
    IF items = <<>> THEN sorted
    ELSE SortByCount(Tail(items), InsertByCount(sorted, Head(items)))

\* Counter.most_common(n) for an int n
most_common(items, n) ==
    IF n <= 0 THEN <<>>
    ELSE SubSeq(SortByCount(items, <<>>), 1, IF n < Len(items) THEN n ELSE Len(items))

\* TextProcessor.get_word_frequency after its call of process_file, whose
\* outcome is r: an exception of process_file leaves the call
word_frequency_of(r, top_n) ==
    IF r.raised THEN r
    ELSE Returned(r.P, most_common(Counter(r.value.tokens, <<>>), top_n))

\* TextProcessor.get_word_frequency(file_path, top_n, remove_stopwords)
get_word_frequency(P, store, path, top_n, remove_stopwords) ==
    word_frequency_of(tp_process_file(P, store, path, remove_stopwords), top_n)

\* ------------------------------------------------ pipeline specification
\* inputs of the pipeline calls
DocTypeArgs == {"", "web", "legal"}
RegisterLabels == {"web"}
RegisterFactories == {"create_news_processor"}
Texts == { <<"W","e","b"," ","p","a","g","e">> }
FilePaths == {"docs/a.txt", "gone.txt"}
Directories == {"docs"}
BatchItems == { <<<<"W","e","b"," ","p","a","g","e">>, "web">>, <<<<"W","e","b"," ","p","a","g","e">>, "">>, <<<<"W","e","b"," ","p","a","g","e">>, "legal">> }

RECURSIVE Batches(_)
Batches(n) ==
    IF n = 0 THEN { <<>> }
    ELSE LET shorter == Batches(n - 1)
         IN  shorter \cup { Append(b, x) : b \in shorter, x \in BatchItems }

Program == [files |-> files, stores |-> stores, registry |-> registry,
            processors |-> processors, results |-> results]

\* the state after a call with outcome r; the call record keeps the log as
\* it was when the call was made
Commit(r, op, args) ==
    /\ files' = r.P.files
    /\ stores' = r.P.stores
    /\ registry' = r.P.registry
    /\ processors' = r.P.processors
    /\ results' = r.P.results
    /\ last' = IF r.raised
               THEN [call |-> op, inputs |-> args, log_before |-> results,
                     raised |-> TRUE, error |-> r.error]
               ELSE [call |-> op, inputs |-> args, log_before |-> results,
                     raised |-> FALSE, value |-> r.value]

RegistryGet(doc_type) ==
    /\ Commit(registry_get_processor(Program, doc_type),
              "registry_get_processor", <<doc_type>>)
    /\ UNCHANGED raceVars

Register(doc_type, factory) ==
    /\ Commit(register_processor(Program, doc_type, factory),
              "register_processor", <<doc_type, factory>>)
    /\ UNCHANGED raceVars

GetProcessor(doc_type) ==
    /\ Commit(get_processor(Program, doc_type), "get_processor", <<doc_type>>)
    /\ UNCHANGED raceVars

ProcessText(text, doc_type) ==
    /\ Commit(process_text(Program, text, doc_type), "process_text", <<text, doc_type>>)
    /\ Len(results') <= MaxLog
    /\ UNCHANGED raceVars

ProcessFile(path, doc_type) ==
    /\ Commit(process_file(Program, path, doc_type), "process_file", <<path, doc_type>>)
    /\ Len(results') <= MaxLog
    /\ UNCHANGED raceVars

ProcessBatch(texts) ==
    /\ Commit(process_batch(Program, texts), "process_batch", <<texts>>)
    /\ Len(results') <= MaxLog
    /\ UNCHANGED raceVars

ProcessDirectory(directory, doc_type) ==
    /\ Commit(process_directory(Program, directory, doc_type),
              "process_directory", <<directory, doc_type>>)
    /\ Len(results') <= MaxLog
    /\ UNCHANGED raceVars

Reset ==
    /\ Commit(reset(Program), "reset", <<>>)
    /\ UNCHANGED raceVars

TextProcessorDirectory(i, directory, remove_stopwords) ==
    /\ Commit(tp_process_directory(Program, stores[i], directory, remove_stopwords),
              "tp_process_directory", <<i, directory, remove_stopwords>>)
    /\ UNCHANGED raceVars

InitPipe ==
    /\ files = [p \in Paths |-> NoFile]
    /\ stores = <<>>
    /\ registry = PresetRegistry
    /\ processors = EmptyDict
    /\ results = <<>>
    /\ last = NoCall
    /\ NoRace

NextPipe ==
    \/ \E doc_type \in RegisterLabels, factory \in RegisterFactories :
          Register(doc_type, factory)
    \/ \E doc_type \in DocTypeArgs \ {""} : GetProcessor(doc_type)
    \/ \E text \in Texts, doc_type \in DocTypeArgs : ProcessText(text, doc_type)
    \/ \E path \in FilePaths, doc_type \in DocTypeArgs : ProcessFile(path, doc_type)
    \/ \E texts \in Batches(MaxBatch) : ProcessBatch(texts)
    \/ \E directory \in Directories, doc_type \in DocTypeArgs :
          ProcessDirectory(directory, doc_type)
    \/ Reset
    \/ \E i \in DOMAIN stores, directory \in Directories, remove_stopwords \in BOOLEAN :
          TextProcessorDirectory(i, directory, remove_stopwords)

SpecPipe == InitPipe /\ [][NextPipe]_vars

\* ------------------------------------------------ registry specification
\* processors obtained from the registry directly and through one pipeline
RegistryLabels == {"technical", "news", "web", "legal", "unknown"}
RegistryRegisterLabels == {"web", "legal"}

BoundedRegistryGet(doc_type) ==
    /\ RegistryGet(doc_type)
    /\ Len(stores') <= MaxProcs

BoundedGetProcessor(doc_type) ==
    /\ GetProcessor(doc_type)
    /\ Len(stores') <= MaxProcs

NextReg ==
    \/ \E doc_type \in RegistryLabels : BoundedRegistryGet(doc_type)
    \/ \E doc_type \in RegistryRegisterLabels, factory \in RegisterFactories :
          Register(doc_type, factory)
    \/ \E doc_type \in RegistryLabels : BoundedGetProcessor(doc_type)

SpecReg == InitPipe /\ [][NextReg]_vars

\* ----------------------------------------------------------------- claim C6
\* C6 as claimed: of any two processors obtained, in either order, each has
\* in its effective stopword set every extra word of the other's preset.
C6_LeakEitherOrder ==
    \A i \in DOMAIN stores : \A j \in DOMAIN stores :
        i # j => \A x \in SetOf(ExtraTerms(stores[i].made_by)) : is_stopword(stores[j], x)

\* C6 as amended: a processor constructed after another one has in its
\* effective stopword set every extra word of the earlier one's preset.
C6_LeakToLaterProcessors ==
    \A i \in DOMAIN stores : \A j \in DOMAIN stores :
        i < j => \A x \in SetOf(ExtraTerms(stores[i].made_by)) : is_stopword(stores[j], x)

\* a technical processor obtained after a web processor filters "html"
C6_Witness ==
    \E i \in DOMAIN stores : \E j \in DOMAIN stores :
        /\ i < j
        /\ stores[i].made_by = "create_web_content_processor"
        /\ stores[j].made_by = "create_technical_processor"
        /\ is_stopword(stores[j], <<"h","t","m","l">>)

\* ----------------------------------------------------------------- claim C7
\* C7: in every step of the pipeline, a label already cached keeps its
\* processor, a processor is constructed only for a label that was not cached
\* (one per such label), and get_processor returns the cached processor.
C7_step ==
    /\ \A l \in DOMAIN processors :
          l \in DOMAIN processors' /\ processors'[l] = processors[l]
    /\ Len(stores') - Len(stores) = Cardinality((DOMAIN processors') \ (DOMAIN processors))
    /\ (last'.call = "get_processor" /\ ~last'.raised) =>
          /\ last'.value = processors'[last'.inputs[1]]
          /\ last'.inputs[1] \in DOMAIN processors => last'.value = processors[last'.inputs[1]]
C7_CreatedOncePerLabel == [][C7_step]_vars

\* get_processor("web") returned the processor cached before the label was
\* registered again with another factory, after records were logged
C7_Witness ==
    /\ last.call = "get_processor"
    /\ last.inputs = <<"web">>
    /\ ~last.raised
    /\ last.value = processors["web"]
    /\ registry["web"] # stores[processors["web"]].made_by
    /\ results # <<>>
    /\ Len(stores) = Cardinality(DOMAIN processors)

\* ----------------------------------------------------------------- claim C8
IsProperPrefix(s, t) == Len(s) < Len(t) /\ \A i \in DOMAIN s : t[i] = s[i]

\* C8: the log changes only by a reset or by records appended after the ones
\* there; a process_text call that returns appends exactly the record it
\* returns; a process_batch call that returns yields one record per item, the
\* i-th being that of the i-th item, and appends them in that order.
C8_step ==
    /\ results' # results => (last'.call = "reset" \/ IsProperPrefix(results, results'))
    /\ (last'.call = "process_text" /\ ~last'.raised) =>
          results' = Append(results, last'.value)
    /\ (last'.call = "process_batch" /\ ~last'.raised) =>
          LET texts == last'.inputs[1]
          IN  /\ Len(last'.value) = Len(texts)
              /\ results' = results \o last'.value
              /\ \A i \in DOMAIN texts :
                    last'.value[i] =
                        TextResult(texts[i][1], OrDefault(texts[i][2]),
                                   stores'[processors'[OrDefault(texts[i][2])]])
C8_LogAppendOnlyInOrder == [][C8_step]_vars

\* a batch of two items of different types returned its two records, in the
\* order of the items, and the log holds them in that order
C8_Witness ==
    /\ last.call = "process_batch"
    /\ ~last.raised
    /\ Len(last.value) = 2
    /\ last.value[1].type = "web"
    /\ last.value[2].type = "technical"
    /\ last.value[1].tokens # last.value[2].tokens
    /\ results = last.value

\* a process_text call appended its record after an earlier, different one
C8_TextAppended ==
    /\ last.call = "process_text"
    /\ ~last.raised
    /\ Len(results) = 2
    /\ results[2] = last.value
    /\ results[1] # results[2]

\* ----------------------------------------------------------------- claim C9
\* C9 as claimed: process_file on a path that cannot be read does not raise,
\* returns a record of the path and an error message and leaves the log as it
\* was; on a readable file a call that returns yields a record carrying the
\* path, and exactly that record is appended to the log.
C9_FileErrorsReturned ==
    last.call = "process_file" =>
        IF FileKind(last.inputs[1]) # "file"
        THEN /\ ~last.raised
             /\ DOMAIN last.value = {"file", "error"}
             /\ last.value.file = last.inputs[1]
             /\ results = last.log_before
        ELSE ~last.raised =>
                /\ last.value.file = last.inputs[1]
                /\ results = Append(last.log_before, last.value)

\* what does hold of process_file: the same, for the calls that return
C9_WhenTypeResolves ==
    (last.call = "process_file" /\ ~last.raised) =>
        IF FileKind(last.inputs[1]) # "file"
        THEN /\ DOMAIN last.value = {"file", "error"}
             /\ last.value.file = last.inputs[1]
             /\ results = last.log_before
        ELSE /\ last.value.file = last.inputs[1]
             /\ results = Append(last.log_before, last.value)

\* ---------------------------------------------------------------- claim C10
\* C10 as claimed: a batch or directory call never raises and returns one
\* record per item (per regular file for the pipeline's directory call).
C10_BatchesComplete ==
    /\ last.call = "process_batch" =>
          /\ ~last.raised
          /\ Len(last.value) = Len(last.inputs[1])
    /\ last.call = "process_directory" =>
          /\ ~last.raised
          /\ Len(last.value) = Len(SelectSeq(Glob(last.inputs[1]), IsFile))
    /\ last.call = "tp_process_directory" =>
          /\ ~last.raised
          /\ Len(last.value) = Len(Glob(last.inputs[2]))

\* what does hold: TextProcessor.process_directory never raises and fills
\* every slot, a failing file's with an error entry
C10_TextProcessorDirectoryCompletes ==
    last.call = "tp_process_directory" =>
        /\ ~last.raised
        /\ Len(last.value) = Len(Glob(last.inputs[2]))
        /\ \A k \in DOMAIN last.value :
              /\ last.value[k].file = Glob(last.inputs[2])[k]
              /\ FileKind(Glob(last.inputs[2])[k]) # "file"
                    <=> DOMAIN last.value[k] = {"file", "error"}

\* ---------------------------------------------------------------- claim C11
\* the program after the step
ProgramAfter == [files |-> files', stores |-> stores', registry |-> registry',
                 processors |-> processors', results |-> results']

\* C11: a reset() step empties the log, so that get_pipeline_stats returns
\* the no-results record, and leaves the processor cache, every processor's
\* in-memory custom stopwords and the persisted file as they were; a
\* get_processor for a label cached before the reset then returns the
\* processor cached before it and constructs none.
C11_step ==
    last'.call = "reset" =>
        /\ ~last'.raised
        /\ results' = <<>>
        /\ get_pipeline_stats(ProgramAfter).value = NoResults
        /\ processors' = processors
        /\ stores' = stores
        /\ files' = files
        /\ \A l \in DOMAIN processors :
              /\ get_processor(ProgramAfter, l).value = processors[l]
              /\ get_processor(ProgramAfter, l).P.stores = stores
C11_ResetClearsLogOnly == [][C11_step]_vars

\* a reset of a log that held records, with two processors cached, one of
\* them holding custom stopwords that are also in the persisted file
C11_Witness ==
    /\ last.call = "reset"
    /\ last.log_before # <<>>
    /\ results = <<>>
    /\ Cardinality(DOMAIN processors) >= 2
    /\ \E l \in DOMAIN processors : stores[processors[l]].custom_stopwords # {}
    /\ DictGet(files[DefaultPath].data, DefaultLanguage) # <<>>

\* ---------------------------------------------------- text specification
\* one pipeline processing texts of the default and the web type, with the
\* statistics read at any time
StatTexts ==
    { <<>>,
      <<" ">>,
      <<"T","h","e"," ","W","e","b"," ","p","a","g","e">>,
      <<"x","-","y">> }
StatTypes == {"", "web"}

TextProcessText(text, doc_type) ==
    /\ Commit(process_text(Program, text, doc_type), "process_text", <<text, doc_type>>)
    /\ Len(results') <= MaxDocs
    /\ UNCHANGED raceVars

GetPipelineStats ==
    /\ Commit(get_pipeline_stats(Program), "get_pipeline_stats", <<>>)
    /\ UNCHANGED raceVars

NextText ==
    \/ \E text \in StatTexts, doc_type \in StatTypes : TextProcessText(text, doc_type)
    \/ GetPipelineStats
    \/ Reset

SpecText == InitPipe /\ [][NextText]_vars

\* ---------------------------------------------------------------- claim C12
\* the sum of a field over the log, as the number of (record, unit) pairs
FieldTotal(rs, key) ==
    Cardinality({ <<k, i>> \in (DOMAIN rs) \X (1..16) : i <= rs[k][key] })

\* every part of the claim but the average
C12_Counts ==
    /\ ~last.raised
    /\ results = last.log_before
    /\ IF results = <<>>
       THEN last.value = NoResults
       ELSE /\ last.value.total_documents = Len(results)
            /\ last.value.total_tokens = FieldTotal(results, "token_count")
            /\ last.value.total_unique_tokens = FieldTotal(results, "unique_tokens")
            /\ last.value.document_types = { results[k].type : k \in DOMAIN results }

\* C12 as claimed: get_pipeline_stats leaves the log alone and returns the
\* no-results record for an empty log, otherwise the number of records, the
\* sums of token_count and unique_tokens, the set of types, and as
\* avg_tokens_per_doc the quotient total_tokens / total_documents (kept in
\* hundredths).
C12_StatsExactAverage ==
    last.call = "get_pipeline_stats" =>
        /\ C12_Counts
        /\ results # <<>> =>
              last.value.avg_tokens_per_doc * Len(results)
                  = 100 * FieldTotal(results, "token_count")

\* C12 as amended: the same with avg_tokens_per_doc the quotient rounded to
\* two decimals (the hundredth nearest to it).
C12_StatsRoundedAverage ==
    last.call = "get_pipeline_stats" =>
        /\ C12_Counts
        /\ results # <<>> =>
              LET d == last.value.avg_tokens_per_doc * Len(results)
                           - 100 * FieldTotal(results, "token_count")
              IN  2 * d <= Len(results) /\ 0 - 2 * d <= Len(results)

\* statistics of three records of two types whose average is not a whole
\* number of hundredths
C12_Witness ==
    /\ last.call = "get_pipeline_stats"
    /\ Len(results) = 3
    /\ last.value.total_documents = 3
    /\ last.value.total_tokens = 5
    /\ last.value.avg_tokens_per_doc = 167
    /\ last.value.document_types = {"technical", "web"}

\* ---------------------------------------------------------------- claim C13
\* C13: a registry get_processor step for a label not registered raises the
\* unknown-type error, which lists exactly the labels registered at that
\* moment, constructs no processor and leaves the registry and the persisted
\* file as they were; a register_processor step sets the label's factory
\* (adding the label or replacing its factory) and leaves the other labels
\* alone; and a get_processor step for a registered label returns a new
\* processor made by the factory registered for the label at that moment.
C13_step ==
    /\ last'.call = "registry_get_processor" =>
          IF last'.inputs[1] \notin DOMAIN registry
          THEN /\ last'.raised
               /\ last'.error.kind = "ValueError"
               /\ last'.error.doc_type = last'.inputs[1]
               /\ last'.error.available = DOMAIN registry
               /\ stores' = stores
               /\ registry' = registry
               /\ files' = files
          ELSE /\ ~last'.raised
               /\ last'.value = Len(stores) + 1
               /\ Len(stores') = Len(stores) + 1
               /\ stores'[last'.value].made_by = registry[last'.inputs[1]]
               /\ registry' = registry
    /\ last'.call = "register_processor" =>
          /\ ~last'.raised
          /\ DOMAIN registry' = (DOMAIN registry) \cup {last'.inputs[1]}
          /\ registry'[last'.inputs[1]] = last'.inputs[2]
          /\ \A l \in DOMAIN registry : l # last'.inputs[1] => registry'[l] = registry[l]
          /\ stores' = stores
          /\ files' = files
C13_RegistryLookupAndRegister == [][C13_step]_vars

\* the registry raised for "unknown" listing the five presets and the added
\* label "legal", after "web" was overwritten and a processor for "legal"
\* was made by the factory registered for it
C13_Witness ==
    /\ last.call = "registry_get_processor"
    /\ last.raised
    /\ last.inputs = <<"unknown">>
    /\ last.error.available = (DOMAIN PresetRegistry) \cup {"legal"}
    /\ registry["web"] = "create_news_processor"
    /\ "legal" \in DOMAIN processors
    /\ stores[processors["legal"]].made_by = "create_news_processor"

\* ------------------------------------------- text processor specification
\* TextProcessor instances over stores of either language, to which words
\* of the texts are added, tokenising texts and counting the words of files
ProcWords == { <<"W","e","b">>, <<"b">> }
ProcArgs == { StrArg(w) : w \in ProcWords }
ProcTexts ==
    { <<"T","h","e"," ","W","e","b"," ","p","a","g","e","."," ","t","h","e"," ","W","E","B">>,
      <<"t","o","-","T","o"," "," ","l","e","_","1"," ","L","a">> }
FreqPaths == {"freq.txt", "ties.txt", "gone.txt"}
TopNs == 0 .. MaxTop

\* preprocess(text, store, remove_stopwords)
Preprocess(i, text, remove_stopwords) ==
    /\ last' = [call |-> "preprocess", id |-> i, text |-> text,
                remove_stopwords |-> remove_stopwords,
                tokens |-> preprocess(text, stores[i], remove_stopwords)]
    /\ UNCHANGED <<storeVars, raceVars, pipeVars>>

\* the call record of get_word_frequency with outcome r
FrequencyCall(r, i, path, top_n, remove_stopwords) ==
    IF r.raised
    THEN [call |-> "get_word_frequency", id |-> i, path |-> path, top_n |-> top_n,
          remove_stopwords |-> remove_stopwords, raised |-> TRUE, error |-> r.error]
    ELSE [call |-> "get_word_frequency", id |-> i, path |-> path, top_n |-> top_n,
          remove_stopwords |-> remove_stopwords, raised |-> FALSE, pairs |-> r.value]

\* TextProcessor(stores[i]).get_word_frequency(path, top_n, remove_stopwords)
GetWordFrequency(i, path, top_n, remove_stopwords) ==
    /\ last' = FrequencyCall(get_word_frequency(Program, stores[i], path, top_n,
                                                remove_stopwords),
                             i, path, top_n, remove_stopwords)
    /\ UNCHANGED <<storeVars, raceVars, pipeVars>>

\* CustomStopwords(language, storage_path) for a TextProcessor
NewTextProcessor(language, path) ==
    /\ Len(stores) < MaxTextProcs
    /\ New(language, path)

NextProc ==
    \/ \E language \in Languages, path \in Paths : NewTextProcessor(language, path)
    \/ \E i \in DOMAIN stores, arg \in ProcArgs : Add(i, arg)
    \/ \E i \in DOMAIN stores, text \in ProcTexts, remove_stopwords \in BOOLEAN :
          Preprocess(i, text, remove_stopwords)
    \/ \E i \in DOMAIN stores, path \in FreqPaths, top_n \in TopNs,
            remove_stopwords \in BOOLEAN :
          GetWordFrequency(i, path, top_n, remove_stopwords)

SpecProc == Init /\ [][NextProc]_vars

\* ---------------------------------------------------------------- claim C14
\* the tokens of a text, each in lowercase
LowerTokens(text) ==
    LET words == FindWords(text, <<>>, <<>>)
    IN  [k \in DOMAIN words |-> Lower(words[k])]

\* C14: a preprocess step with remove_stopwords false yields every token of
\* the text in lowercase, in order; with remove_stopwords true it yields
\* exactly the tokens that are not stopwords of the store, in their original
\* order and as often as they occur; the step leaves the store and its file
\* as they were.
C14_step ==
    last'.call = "preprocess" =>
        LET store == stores[last'.id]
            tokens == LowerTokens(last'.text)
        IN  /\ ~last'.remove_stopwords => last'.tokens = tokens
            /\ last'.remove_stopwords =>
                   last'.tokens = SelectSeq(tokens, LAMBDA t : ~is_stopword(store, t))
            /\ stores' = stores
            /\ files' = files
C14_PreprocessFilters == [][C14_step]_vars

\* a text with capitals, a repeated word and stopwords of both kinds was
\* filtered through a store holding a custom stopword: the repeated base
\* stopword and the custom one are gone, the other tokens are kept
C14_Witness ==
    /\ last.call = "preprocess"
    /\ last.remove_stopwords
    /\ stores[last.id].custom_stopwords = { <<"w","e","b">> }
    /\ stores[last.id].language = "english"
    /\ last.text = <<"T","h","e"," ","W","e","b"," ","p","a","g","e","."," ","t","h","e"," ","W","E","B">>
    /\ last.tokens = << <<"p","a","g","e">> >>

\* the same text unfiltered: five lowercase tokens, duplicates kept
C14_WitnessUnfiltered ==
    /\ last.call = "preprocess"
    /\ ~last.remove_stopwords
    /\ Len(last.tokens) = 5
    /\ last.tokens[1] = last.tokens[4]
    /\ last.tokens[2] = <<"w","e","b">>
    /\ last.tokens[5] = <<"w","e","b">>

\* ---------------------------------------------------------------- claim C15
\* the tokens process_file hands to the count
ProcessedTokens(store, path, remove_stopwords) ==
    IF remove_stopwords
    THEN SelectSeq(LowerTokens(FileText(path)), LAMBDA t : ~is_stopword(store, t))
    ELSE LowerTokens(FileText(path))

Occurrences(tokens, w) == Cardinality({k \in DOMAIN tokens : tokens[k] = w})
FirstOccurrence(tokens, w) ==
    CHOOSE k \in DOMAIN tokens : tokens[k] = w /\ \A j \in 1 .. (k - 1) : tokens[j] # w

\* C15: get_word_frequency on a readable file returns min(top_n, number of
\* distinct tokens) pairs of distinct words, each with the number of its
\* occurrences among the processed tokens, in non-increasing order of count,
\* words of equal count in the order of their first occurrence; no word left
\* out occurs more often than a returned one.
C15_WordFrequency ==
    (last.call = "get_word_frequency" /\ ~last.raised) =>
        LET tokens == ProcessedTokens(stores[last.id], last.path, last.remove_stopwords)
            distinct == SetOf(tokens)
            pairs == last.pairs
            returned == {pairs[k][1] : k \in DOMAIN pairs}
        IN  /\ Len(pairs) = IF last.top_n < Cardinality(distinct)
                            THEN last.top_n ELSE Cardinality(distinct)
            /\ Cardinality(returned) = Len(pairs)
            /\ \A k \in DOMAIN pairs :
                  /\ pairs[k][1] \in distinct
                  /\ pairs[k][2] = Occurrences(tokens, pairs[k][1])
            /\ \A j, k \in DOMAIN pairs :
                  j < k =>
                     /\ pairs[j][2] >= pairs[k][2]
                     /\ pairs[j][2] = pairs[k][2] =>
                           FirstOccurrence(tokens, pairs[j][1])
                              < FirstOccurrence(tokens, pairs[k][1])
            /\ \A w \in distinct \ returned :
                  \A k \in DOMAIN pairs : Occurrences(tokens, w) <= pairs[k][2]

\* the two most frequent words of "a a b b b c", counted without stopword
\* removal: b three times, then a twice, c left out
C15_Witness ==
    /\ last.call = "get_word_frequency"
    /\ ~last.raised
    /\ last.path = "freq.txt"
    /\ last.top_n = 2
    /\ ~last.remove_stopwords
    /\ last.pairs = << << <<"b">>, 3 >>, << <<"a">>, 2 >> >>

\* "C b b c a": c and b both occur twice and c is met first, so the two most
\* frequent words are c, then b
C15_WitnessTie ==
    /\ last.call = "get_word_frequency"
    /\ ~last.raised
    /\ last.path = "ties.txt"
    /\ last.top_n = 2
    /\ ~last.remove_stopwords
    /\ last.pairs = << << <<"c">>, 2 >>, << <<"b">>, 2 >> >>

\* ---------------------------------------------------------------- claim C16
\* the number of whitespace-delimited words of a text: the places where a
\* character that is not a space starts the text or follows a space
RawWordCount(text) ==
    Cardinality({k \in DOMAIN text :
                    /\ text[k] # " "
                    /\ (k = 1 \/ text[k - 1] = " ")})

\* the record a process_text call returned carries the length of its token
\* list and the number of distinct tokens in it; a text without words is
\* processed without an exception and gives no token and a reduction of 0
C16_Counts ==
    last.call = "process_text" =>
        LET words == RawWordCount(last.inputs[1])
        IN  /\ words = 0 => ~last.raised
            /\ ~last.raised =>
                  /\ last.value.token_count = Len(last.value.tokens)
                  /\ last.value.unique_tokens = Cardinality(SetOf(last.value.tokens))
                  /\ words = 0 =>
                        /\ last.value.token_count = 0
                        /\ last.value.reduction_percent = 0

\* C16 as stated: for a text with words, reduction_percent is exactly
\* 100 * (1 - token_count / words), here in hundredths of a percent.
C16_ReductionExact ==
    /\ C16_Counts
    /\ (last.call = "process_text" /\ ~last.raised) =>
          LET words == RawWordCount(last.inputs[1])
          IN  words > 0 =>
                 last.value.reduction_percent * words
                    = 10000 * (words - last.value.token_count)

\* C16 amended: for a text with words, reduction_percent is
\* 100 * (1 - token_count / words) rounded to 2 decimals, that is the
\* hundredth nearest to it; the counts and the case of a text without words
\* are as stated.
C16_ReductionRounded ==
    /\ C16_Counts
    /\ (last.call = "process_text" /\ ~last.raised) =>
          LET words == RawWordCount(last.inputs[1])
              d == last.value.reduction_percent * words
                      - 10000 * (words - last.value.token_count)
          IN  words > 0 => (2 * d <= words /\ 0 - 2 * d <= words)

\* a text of one space was processed to no token and a reduction of 0, after
\* a text of three words of which two were kept gave 33.33
C16_Witness ==
    /\ last.call = "process_text"
    /\ ~last.raised
    /\ last.inputs[1] = <<" ">>
    /\ last.value.token_count = 0
    /\ last.value.reduction_percent = 0
    /\ \E k \in DOMAIN last.log_before :
          /\ last.log_before[k].token_count = 2
          /\ last.log_before[k].original_length = 12
          /\ last.log_before[k].reduction_percent = 3333

\* ---------------------------------------------------------------- claim C17
\* C17: the reduction_percent of every record process_text returns lies
\* between 0 and 100 (here in hundredths of a percent), the tokens kept
\* never being more than the whitespace-delimited words of the text.
C17_ReductionInRange ==
    (last.call = "process_text" /\ ~last.raised) =>
        /\ last.value.reduction_percent >= 0
        /\ last.value.reduction_percent <= 10000
        /\ last.value.token_count <= RawWordCount(last.inputs[1])

\* the text "x-y" is one whitespace-delimited word and two tokens
C17_NegativeReached ==
    /\ last.call = "process_text"
    /\ ~last.raised
    /\ last.inputs[1] = <<"x","-","y">>
    /\ last.value.token_count = 2
    /\ last.value.reduction_percent = 0 - 10000

\* ---------------------------------------------------------------- claim C18
\* C18: a process_file step that fails (the path is no readable file, or the
\* call raises) leaves the result log as it was, and that is all it is sure
\* to leave: the processor is resolved first.  For a label neither cached
\* nor registered the call raises the unknown-type error; for a registered
\* label not yet cached it returns the error record, having constructed the
\* processor with the registered factory, cached it and, where the factory
\* adds preset words, rewritten the persisted entry with them; for a cached
\* label nothing else changes.
C18_step ==
    (last'.call = "process_file" /\ (last'.raised \/ FileKind(last'.inputs[1]) # "file")) =>
        LET label == OrDefault(last'.inputs[2])
            new == Len(stores) + 1
        IN  /\ results' = results
            /\ (label \notin DOMAIN processors /\ label \notin DOMAIN registry) =>
                  /\ last'.raised
                  /\ last'.error.kind = "ValueError"
                  /\ last'.error.doc_type = label
                  /\ processors' = processors
                  /\ stores' = stores
                  /\ files' = files
            /\ (label \notin DOMAIN processors /\ label \in DOMAIN registry) =>
                  /\ ~last'.raised
                  /\ DOMAIN last'.value = {"file", "error"}
                  /\ DOMAIN processors' = DOMAIN processors \cup {label}
                  /\ processors'[label] = new
                  /\ \A l \in DOMAIN processors : processors'[l] = processors[l]
                  /\ Len(stores') = new
                  /\ SubSeq(stores', 1, Len(stores)) = stores
                  /\ stores'[new].made_by = registry[label]
                  /\ SetOf(ExtraTerms(registry[label])) \subseteq stores'[new].custom_stopwords
                  /\ files'[DefaultPath].exists
                  /\ ExtraTerms(registry[label]) # <<>> =>
                        SetOf(DictGet(files'[DefaultPath].data, DefaultLanguage))
                           = stores'[new].custom_stopwords
            /\ label \in DOMAIN processors =>
                  /\ ~last'.raised
                  /\ processors' = processors
                  /\ stores' = stores
                  /\ files' = files
C18_FailingProcessFileEffects == [][C18_step]_vars

\* process_file of the missing file with the label "web" returned the error
\* record and logged nothing, and the only processor there is, made by the
\* web factory, is cached with its preset words persisted
C18_Witness ==
    /\ last.call = "process_file"
    /\ last.inputs = <<"gone.txt", "web">>
    /\ ~last.raised
    /\ last.value = [file |-> "gone.txt", error |-> "File not found"]
    /\ last.log_before = <<>>
    /\ results = <<>>
    /\ DOMAIN processors = {"web"}
    /\ Len(stores) = 1
    /\ stores[processors["web"]].made_by = "create_web_content_processor"
    /\ <<"h","t","m","l">> \in SetOf(DictGet(files[DefaultPath].data, DefaultLanguage))

\* process_file with the unregistered label "legal" raised
C18_RaisedReached ==
    /\ last.call = "process_file"
    /\ last.raised
    /\ last.inputs[2] = "legal"
    /\ last.error.kind = "ValueError"

====
